---- MODULE Spec2Model ----
(***************************************************************************)
(* Model of the EPFO data extractor (src/main.py): the GUI thread with its *)
(* button handlers and timers, the two queues, the playwright_worker       *)
(* threads and the three extraction tasks they run.                        *)
(***************************************************************************)
EXTENDS Integers, Sequences, FiniteSets, TLC

\* ---------------------------------------------------------------- bounds
\* Worker threads that can ever be started (the initial one and restarts).
MaxWorkers == 2
\* Commands the caller can put on command_queue in one run.
MaxCmds == 4
\* Comma-separated fields typed into a UAN entry.
MaxUans == 2
\* Result pages a grid of the portal has, and rows on one page.
MaxPages == 2
MaxRows == 1

Workers == 1..MaxWorkers

VARIABLES
    command_queue,   \* queue.Queue of (command, data), line 19
    result_queue,    \* queue.Queue of (result_type, data), line 20
    wpc,             \* each worker thread's position in playwright_worker
    wcmd,            \* the command a worker dequeued last
    local,           \* each worker's local variables (and per-task history)
    browser,         \* each worker's browser: "none", "open", "closed"
    files,           \* the file system: path -> content
    ui_state,        \* the state update_ui_state set last
    root,            \* the Tk root: "running", "closing", "destroyed"
    pendingStart,    \* root.after(500, start_worker_thread) timers not yet fired
    pendingInitial,  \* root.after(600, update_ui_state('initial')) timers not yet fired
    nStarted,        \* worker threads started so far
    uans_entry,      \* the text of uans_entry: its comma-separated fields
    output_file_entry, \* the text of output_file_entry
    ecr_entry,       \* the ECR date widgets: start/end year text and month name
    msd_uans_entry,  \* the text of msd_uans_entry: its comma-separated fields
    portal,          \* what the remote portal can show during this run
    nextId,          \* history: commands put so far + 1
    lastConsumed,    \* history: highest command whose event the GUI consumed
    owed,            \* history: workers that were live when a shutdown was put
    shutdownPut      \* history: a shutdown command has been put

entries == <<uans_entry, output_file_entry, ecr_entry, msd_uans_entry, portal>>

vars == <<command_queue, result_queue, wpc, wcmd, local, browser, files,
          ui_state, root, pendingStart, pendingInitial, nStarted, nextId,
          lastConsumed, owed, shutdownPut, entries>>

\* ------------------------------------------------------------- helpers
RECURSIVE Count(_, _)
Count(evs, t) ==
    IF evs = <<>> THEN 0
    ELSE (IF Head(evs).type = t THEN 1 ELSE 0) + Count(Tail(evs), t)


RECURSIVE SeqsUpTo(_, _)
SeqsUpTo(S, n) ==
    IF n = 0 THEN {<<>>}
    ELSE LET shorter == SeqsUpTo(S, n - 1)
         IN  shorter \cup {Append(s, x) : s \in shorter, x \in S}

Range(s) == {s[i] : i \in 1..Len(s)}

NoData == [uans |-> <<>>, output_file |-> "", start_date |-> 0, end_date |-> 0]
NoCmd == [cmd |-> "none", data |-> NoData, id |-> 0]
TaskCmds == {"run_uan", "run_ecr", "run_msd"}

\* A result event; w and cmd record which worker put it while running which command.
Ev(type, data, w) == [type |-> type, data |-> data, w |-> w, cmd |-> wcmd[w].id]

NoRow == [trrn |-> "", wage |-> <<>>, status |-> "", link |-> FALSE, err |-> "none"]

\* A path of the file system: directory, file name, and the rest of the name.
Path(dir, a, b) == [dir |-> dir, a |-> a, b |-> b]
Exists(fs, p) == p \in DOMAIN fs

EmptyLocal ==
    [i |-> 0, all_uan_data |-> <<>>,
     page |-> 0, rows_left |-> 0, row |-> NoRow, downloaded_files |-> <<>>,
     headers |-> 0, all_rows_data |-> <<>>, generated_files |-> <<>>, pager |-> "unread",
     nInfo |-> 0, nError |-> 0, nLogged |-> 0, failed |-> FALSE, wrote |-> FALSE]

\* A worker's session is live from a successful launch until its browser is closed.
Live(w) == browser[w] = "open"
InHandler(w) == wpc[w] \notin {"unstarted", "launch", "get", "exit", "done"}

\* ------------------------------------------------------ dates and texts
\* Line 174 (and line 408): the month names.
Months == <<"Jan", "Feb", "Mar", "Apr", "May", "Jun", "Jul", "Aug", "Sep", "Oct", "Nov", "Dec">>

\* str.title() on the month texts of the model: first letter upper, rest lower;
\* leading white space stays.
Title(s) == CASE s = "feb" -> "Feb" [] s = "MAR" -> "Mar" [] OTHER -> s

\* Lines 173-178 with a month instead of the sentinel for an unknown name.
get_month_indexFallback(month_str) ==
    IF \E i \in 1..Len(Months) : Months[i] = Title(month_str)
    THEN CHOOSE i \in 1..Len(Months) : Months[i] = Title(month_str)
    ELSE 2

\* Lines 173-178.
get_month_index(month_str) ==
    IF \E i \in 1..Len(Months) : Months[i] = Title(month_str)
    THEN CHOOSE i \in 1..Len(Months) : Months[i] = Title(month_str)
    ELSE -1

\* int(text): the texts int() parses (white space around the digits is allowed).
IntTable == [y2023 |-> 2023, y2024 |-> 2024, y2024sp |-> 2024, y0 |-> 0]
IntText == [y2023 |-> "2023", y2024 |-> "2024", y2024sp |-> " 2024", y0 |-> "0"]
IntParses(s) == \E k \in DOMAIN IntText : IntText[k] = s
int(s) == IntTable[CHOOSE k \in DOMAIN IntText : IntText[k] = s]

\* datetime(year, month, 1): ValueError unless 1 <= year <= 9999 and 1 <= month <= 12.
\* A date is kept as year * 100 + month, which orders as datetime does.
DateOk(year, month) == year \in 1..9999 /\ month \in 1..12
datetime(year, month) == year * 100 + month

\* Lines 241-242: month_str, year_str = wage_month_str.split('-'), then the date.
\* A wage month text is kept as its '-'-separated pieces.
WageParses(wage) ==
    /\ Len(wage) = 2
    /\ IntParses(wage[2])
    /\ DateOk(int(wage[2]), get_month_index(wage[1]))
WageDate(wage) == datetime(int(wage[2]), get_month_index(wage[1]))

\* Line 243 under line 240: the row's status and wage month select it.
QualifiesExclusiveEnd(row, data) ==
    /\ row.status = "Payment Confirmed"
    /\ WageParses(row.wage)
    /\ data.start_date <= WageDate(row.wage)
    /\ WageDate(row.wage) < data.end_date
Qualifies(row, data) ==
    /\ row.status = "Payment Confirmed"
    /\ WageParses(row.wage)
    /\ data.start_date <= WageDate(row.wage)
    /\ WageDate(row.wage) <= data.end_date

\* The rows the claim list of the portal can show.  err: where reading the row
\* raises PlaywrightError ("read": a cell of the row, "download": the download).
Trrns == {"T1"}
Statuses == {"Payment Confirmed", "Pending", "payment confirmed"}
WageTexts == {<<"Jan", "2024">>, <<"Feb", "2024">>, <<"MAR", "2024">>, <<"Apr", "2024">>,
              <<"Feb", "2023">>, <<"Foo", "2024">>, <<"Feb">>, <<"feb", " 2024">>}
EcrRows == [trrn : Trrns, wage : WageTexts, status : Statuses, link : BOOLEAN,
            err : {"none", "read", "download"}]
GoodRow == [trrn |-> "T1", wage |-> <<"Feb", "2024">>, status |-> "Payment Confirmed",
            link |-> TRUE, err |-> "none"]

\* The column counts the service-detail grid can show (after the row-number column).
Arities == {1, 2}

\* What the portal can show in a run: the rows of the claim list and its pages,
\* the header and row widths of the service-detail grid and its pages.
SmallPortal ==
    [ecr_rows |-> {GoodRow}, ecr_pages |-> 2,
     msd_headers |-> {1}, msd_arities |-> {1, 2}, msd_pages |-> 1]
FullPortals ==
    [ecr_rows : {EcrRows}, ecr_pages : {MaxPages},
     msd_headers : {Arities}, msd_arities : {Arities}, msd_pages : {MaxPages}]

\* ---------------------------------------------------------------- Init
\* Lines 458-463: the UI starts in 'initial', the first worker thread is started.
Init ==
    /\ command_queue = <<>>
    /\ result_queue = <<>>
    /\ wpc = [w \in Workers |-> IF w = 1 THEN "launch" ELSE "unstarted"]
    /\ wcmd = [w \in Workers |-> NoCmd]
    /\ local = [w \in Workers |-> EmptyLocal]
    /\ browser = [w \in Workers |-> "none"]
    /\ files = <<>>
    /\ ui_state = "initial"
    /\ root = "running"
    /\ pendingStart = 0
    /\ pendingInitial = 0
    /\ nStarted = 1
    /\ nextId = 1
    /\ lastConsumed = 0
    /\ owed = {}
    /\ shutdownPut = FALSE
    /\ uans_entry = <<"u1">>
    /\ output_file_entry = "epfo_data.xlsx"
    /\ ecr_entry = [sy |-> "2024", sm |-> "Feb", ey |-> "2024", em |-> "Mar"]
    /\ msd_uans_entry = <<"u1", "u1">>
    /\ portal = SmallPortal

\* ------------------------------------------------------ worker plumbing
GuiVars == <<ui_state, root, pendingStart, pendingInitial, nStarted, nextId,
             lastConsumed, owed, shutdownPut, entries>>

\* One step of worker w: it moves to pc2, puts evs on result_queue and
\* keeps loc2 as its locals; the counts of info and error events follow evs.
WorkerStep(w, pc2, evs, loc2) ==
    /\ wpc' = [wpc EXCEPT ![w] = pc2]
    /\ result_queue' = result_queue \o evs
    /\ local' = [local EXCEPT ![w] =
                    [loc2 EXCEPT !.nInfo = @ + Count(evs, "info"),
                                 !.nError = @ + Count(evs, "error")]]

\* Where the worker goes after its `except Exception` clause: the try is
\* inside `while True`, so back to command_queue.get().
CatchPcBroken == "done"
CatchPc == "get"

\* Lines 78-79: what the worker's `except Exception` clause puts.
worker_exceptSilent(w) == <<>>
worker_except(w) == <<Ev("error", "unexpected", w)>>

\* An exception leaves the handler: the events put before it, then lines 78-79.
Raise(w, evs, loc2) ==
    WorkerStep(w, CatchPc, evs \o worker_except(w), [loc2 EXCEPT !.failed = TRUE])

\* The process is gone once root.destroy() has ended mainloop (daemon threads).
Running == root # "destroyed"

\* Lines 31-40 without the `return` of line 40.
LaunchNoReturn(w) ==
    /\ Running
    /\ wpc[w] = "launch"
    /\ \E ok \in BOOLEAN :
          IF ok
          THEN /\ browser' = [browser EXCEPT ![w] = "open"]
               /\ WorkerStep(w, "get", <<Ev("status_update", "Ready", w)>>, local[w])
          ELSE /\ browser' = browser
               /\ WorkerStep(w, "get", <<Ev("error", "Could not launch browser", w)>>, local[w])
    /\ UNCHANGED <<command_queue, wcmd, files, GuiVars>>

\* Lines 31-40: launch the browser.
Launch(w) ==
    /\ Running
    /\ wpc[w] = "launch"
    /\ \E ok \in BOOLEAN :
          IF ok
          THEN /\ browser' = [browser EXCEPT ![w] = "open"]
               /\ WorkerStep(w, "get", <<Ev("status_update", "Ready", w)>>, local[w])
          ELSE /\ browser' = browser
               /\ WorkerStep(w, "done", <<Ev("error", "Could not launch browser", w)>>, local[w])
    /\ UNCHANGED <<command_queue, wcmd, files, GuiVars>>

\* The position a dequeued command's handler starts at.
HandlerPc(cmd) == cmd

\* Line 48: `break` leaves the loop.
ShutdownPcNoBreak == "get"
ShutdownPc == "exit"

\* Lines 44-48 and the dispatch of lines 50-76: command_queue.get().
Get(w) ==
    /\ Running
    /\ wpc[w] = "get"
    /\ command_queue # <<>>
    /\ LET c == Head(command_queue) IN
       /\ command_queue' = Tail(command_queue)
       /\ wcmd' = [wcmd EXCEPT ![w] = c]
       /\ wpc' = [wpc EXCEPT ![w] = IF c.cmd = "shutdown" THEN ShutdownPc ELSE HandlerPc(c.cmd)]
       /\ result_queue' =
             IF c.cmd = "shutdown"
             THEN Append(result_queue,
                         [type |-> "status_update", data |-> "Shutting down...",
                          w |-> w, cmd |-> c.id])
             ELSE result_queue
       /\ local' = [local EXCEPT ![w] = EmptyLocal]
    /\ UNCHANGED <<browser, files, GuiVars>>

\* The thread ends without lines 81-82 and without leaving the `with` block.
CloseBrowserSkipped(w) ==
    /\ Running
    /\ wpc[w] = "exit"
    /\ wpc' = [wpc EXCEPT ![w] = "done"]
    /\ UNCHANGED <<command_queue, result_queue, wcmd, local, browser, files, GuiVars>>

\* Lines 81-82 (and the end of the `with sync_playwright()` block).
CloseBrowser(w) ==
    /\ Running
    /\ wpc[w] = "exit"
    /\ browser' = [browser EXCEPT ![w] = "closed"]
    /\ wpc' = [wpc EXCEPT ![w] = "done"]
    /\ UNCHANGED <<command_queue, result_queue, wcmd, local, files, GuiVars>>

\* Lines 50-59.
OpenLoginPage(w) ==
    /\ Running
    /\ wpc[w] = "open_login_page"
    /\ \E ok \in BOOLEAN :
          IF ok
          THEN WorkerStep(w, "get", <<Ev("browser_opened", "None", w)>>, local[w])
          ELSE WorkerStep(w, "get", <<Ev("error", "Could not navigate", w)>>,
                          [local[w] EXCEPT !.failed = TRUE])
    /\ UNCHANGED <<command_queue, wcmd, browser, files, GuiVars>>

\* Lines 61-66 with the timeout reported as an error.
VerifyLoginTimeoutError(w) ==
    /\ Running
    /\ wpc[w] = "verify_login"
    /\ \E found \in BOOLEAN :
          IF found
          THEN WorkerStep(w, "get", <<Ev("login_verified", TRUE, w)>>, local[w])
          ELSE WorkerStep(w, "get", <<Ev("error", "Could not verify", w)>>,
                          [local[w] EXCEPT !.failed = TRUE])
    /\ UNCHANGED <<command_queue, wcmd, browser, files, GuiVars>>

\* Lines 61-66.
VerifyLogin(w) ==
    /\ Running
    /\ wpc[w] = "verify_login"
    /\ \E found \in BOOLEAN :
          WorkerStep(w, "get", <<Ev("login_verified", found, w)>>, local[w])
    /\ UNCHANGED <<command_queue, wcmd, browser, files, GuiVars>>

\* ------------------------------------------------------------ UAN task
Names == {"n1"}

\* Lines 184-192: the start status and the navigation to Member Profile.
UanStart(w) ==
    /\ Running
    /\ wpc[w] = "run_uan"
    /\ \E nav \in BOOLEAN :
          IF nav
          THEN WorkerStep(w, "uan_loop",
                          <<Ev("status_update", "Starting UAN extraction...", w)>>,
                          [local[w] EXCEPT !.i = 1, !.all_uan_data = <<>>])
          ELSE WorkerStep(w, "get",
                          <<Ev("status_update", "Starting UAN extraction...", w),
                            Ev("error", "Could not navigate to 'Member Profile'", w)>>,
                          [local[w] EXCEPT !.failed = TRUE])
    /\ UNCHANGED <<command_queue, wcmd, browser, files, GuiVars>>

\* Line 205: the record appended for a UAN that was read.
UanRecordBlank(uan, name) == [UAN |-> "", Name |-> name]
UanRecord(uan, name) == [UAN |-> uan, Name |-> name]

\* Lines 195-207 without the try/except of lines 197 and 206-207.
UanRowUncaught(w) ==
    /\ Running
    /\ wpc[w] = "uan_loop"
    /\ local[w].i <= Len(wcmd[w].data.uans)
    /\ LET uan == wcmd[w].data.uans[local[w].i]
           ev == <<Ev("status_update", <<"Extracting data for UAN", uan>>, w)>>
       IN \E ok \in BOOLEAN, name \in Names :
             IF ok
             THEN WorkerStep(w, "uan_loop", ev,
                             [local[w] EXCEPT !.i = @ + 1,
                                 !.all_uan_data = Append(@, UanRecord(uan, name))])
             ELSE Raise(w, ev, local[w])
    /\ UNCHANGED <<command_queue, wcmd, browser, files, GuiVars>>

\* Lines 195-207: one iteration of `for uan in uans`.
UanRow(w) ==
    /\ Running
    /\ wpc[w] = "uan_loop"
    /\ local[w].i <= Len(wcmd[w].data.uans)
    /\ LET uan == wcmd[w].data.uans[local[w].i]
           ev == <<Ev("status_update", <<"Extracting data for UAN", uan>>, w)>>
       IN \E ok \in BOOLEAN, name \in Names :
             IF ok
             THEN WorkerStep(w, "uan_loop", ev,
                             [local[w] EXCEPT !.i = @ + 1,
                                 !.all_uan_data = Append(@, UanRecord(uan, name))])
             ELSE WorkerStep(w, "uan_loop", ev,
                             [local[w] EXCEPT !.i = @ + 1, !.nLogged = @ + 1])
    /\ UNCHANGED <<command_queue, wcmd, browser, files, GuiVars>>

\* Lines 213-214: what the task puts when no record was collected.
NoUanDataAsError(w) ==
    <<Ev("error", "No UAN data was extracted.", w),
      Ev("status_update", "UAN extraction finished.", w)>>
NoUanData(w) ==
    <<Ev("info", "No UAN data was extracted.", w),
      Ev("status_update", "UAN extraction finished.", w)>>

\* Lines 209-214: save the table, or report that there is none.
UanFinish(w) ==
    /\ Running
    /\ wpc[w] = "uan_loop"
    /\ local[w].i > Len(wcmd[w].data.uans)
    /\ LET out == wcmd[w].data.output_file
           done == Ev("status_update", "UAN extraction finished.", w)
       IN IF local[w].all_uan_data # <<>>
          THEN \E saved \in BOOLEAN :
                  IF saved
                  THEN /\ files' = (Path("", out, <<>>) :> local[w].all_uan_data) @@ files
                       /\ WorkerStep(w, "get", <<Ev("info", "UAN data extracted and saved", w), done>>,
                                     [local[w] EXCEPT !.wrote = TRUE])
                  ELSE /\ files' = files
                       /\ Raise(w, <<>>, local[w])
          ELSE /\ files' = files
               /\ WorkerStep(w, "get", NoUanData(w), local[w])
    /\ UNCHANGED <<command_queue, wcmd, browser, GuiVars>>

\* ------------------------------------------------------------ ECR task
\* Lines 219-231: the start status, the navigation, the download directory.
EcrDir == Path("", "ecr_downloads", <<>>)

EcrStart(w) ==
    /\ Running
    /\ wpc[w] = "run_ecr"
    /\ \E nav \in BOOLEAN :
          IF nav
          THEN /\ files' = (EcrDir :> "dir") @@ files
               /\ WorkerStep(w, "ecr_page",
                             <<Ev("status_update", "Starting ECR PDF extraction...", w)>>,
                             [local[w] EXCEPT !.page = 0, !.downloaded_files = <<>>])
          ELSE /\ files' = files
               /\ WorkerStep(w, "get",
                             <<Ev("status_update", "Starting ECR PDF extraction...", w),
                               Ev("error", "Could not navigate to ECR page", w)>>,
                             [local[w] EXCEPT !.failed = TRUE])
    /\ UNCHANGED <<command_queue, wcmd, browser, GuiVars>>

\* Lines 234-235: the settle delay, then the rows of the page.  Past its last
\* page the list is empty.
EcrPage(w) ==
    /\ Running
    /\ wpc[w] = "ecr_page"
    /\ \E n \in 0..(IF local[w].page < portal.ecr_pages THEN MaxRows ELSE 0) :
          WorkerStep(w, "ecr_rows", <<>>,
                     [local[w] EXCEPT !.rows_left = n, !.row = NoRow,
                                      !.page = IF @ < portal.ecr_pages THEN @ + 1 ELSE @])
    /\ UNCHANGED <<command_queue, wcmd, browser, files, GuiVars>>

\* Line 251: the file a statement is saved as.
EcrFile(row) == Path("ecr_downloads", row.trrn, row.wage)

\* Lines 247-252: a selected row is downloaded when it has a link and the
\* download succeeds.
Downloaded(row) == row.link /\ row.err = "none"

\* Lines 253-254: the row raised PlaywrightError or ValueError, which is logged:
\* a cell could not be read, the wage month of a confirmed row did not parse,
\* or the download of a selected row with a link failed.
RowRaises(row, data) ==
    \/ row.err = "read"
    \/ row.status = "Payment Confirmed" /\ ~WageParses(row.wage)
    \/ Qualifies(row, data) /\ row.link /\ row.err = "download"

\* Lines 237-254: one iteration of `for row in rows`.
EcrRow(w) ==
    /\ Running
    /\ wpc[w] = "ecr_rows"
    /\ local[w].rows_left > 0
    /\ \E row \in portal.ecr_rows :
          LET loc == [local[w] EXCEPT !.rows_left = @ - 1, !.row = row,
                                      !.nLogged = IF RowRaises(row, wcmd[w].data)
                                                  THEN @ + 1 ELSE @]
              selected == row.err # "read" /\ Qualifies(row, wcmd[w].data)
              ev == IF selected
                    THEN <<Ev("status_update", <<"Downloading PDF for", row.trrn>>, w)>>
                    ELSE <<>>
          IN IF selected /\ Downloaded(row)
             THEN /\ files' = (EcrFile(row) :> "pdf") @@ files
                  /\ WorkerStep(w, "ecr_rows", ev,
                                [loc EXCEPT !.downloaded_files = Append(@, EcrFile(row))])
             ELSE /\ files' = files
                  /\ WorkerStep(w, "ecr_rows", ev, loc)
    /\ UNCHANGED <<command_queue, wcmd, browser, GuiVars>>

\* Lines 255-257: the 'Next' control; is_visible or click may raise, and that
\* exception leaves run_ecr_extraction.
EcrNext(w) ==
    /\ Running
    /\ wpc[w] = "ecr_rows"
    /\ local[w].rows_left = 0
    /\ \E next_button \in {"hidden", "visible", "error"} :
          CASE next_button = "hidden" -> WorkerStep(w, "ecr_zip", <<>>, local[w])
            [] next_button = "visible" -> WorkerStep(w, "ecr_page", <<>>, local[w])
            [] OTHER -> Raise(w, <<>>, local[w])
    /\ UNCHANGED <<command_queue, wcmd, browser, files, GuiVars>>

\* Line 262: `for f in list: zf.write(f, f.name); os.remove(f)`.  The result is
\* the file system, the names written to the archive, and whether a write found
\* its file gone.
RECURSIVE ZipAndRemove(_, _, _)
ZipAndRemove(fs, list, names) ==
    IF list = <<>> THEN [fs |-> fs, names |-> names, ok |-> TRUE]
    ELSE IF ~Exists(fs, Head(list)) THEN [fs |-> fs, names |-> names, ok |-> FALSE]
    ELSE ZipAndRemove([p \in DOMAIN fs \ {Head(list)} |-> fs[p]], Tail(list),
                      Append(names, Head(list)))

\* Line 260: the archive's name.
EcrZipFile(data) ==
    Path("", "ECR_Statements", <<ToString(data.start_date), ToString(data.end_date)>>)

\* Lines 259-266.
EcrZip(w) ==
    /\ Running
    /\ wpc[w] = "ecr_zip"
    /\ LET done == Ev("status_update", "ECR extraction finished.", w)
           z == ZipAndRemove(files, local[w].downloaded_files, <<>>)
           zip == EcrZipFile(wcmd[w].data)
       IN IF local[w].downloaded_files # <<>>
          THEN /\ files' = (zip :> z.names) @@ z.fs
               /\ IF z.ok
                  THEN WorkerStep(w, "get", <<Ev("info", <<"ECR PDFs zipped to", zip>>, w), done>>,
                                  [local[w] EXCEPT !.wrote = TRUE])
                  ELSE Raise(w, <<>>, local[w])
          ELSE /\ files' = files
               /\ WorkerStep(w, "get", <<Ev("info", "No matching ECR statements found.", w), done>>,
                             local[w])
    /\ UNCHANGED <<command_queue, wcmd, browser, GuiVars>>

\* ------------------------------------------------------------ MSD task
MsdDir == Path("", "msd_excel_files", <<>>)
MsdFile(uan) == Path("msd_excel_files", uan, <<>>)
MsdZipFile == Path("", "Member_Service_Details.zip", <<>>)

\* Line 335: a PlaywrightError anywhere in the try block ends the task.
MsdAbort(w, evs) ==
    WorkerStep(w, "get",
               evs \o <<Ev("error", "An error occurred during MSD extraction", w)>>,
               [local[w] EXCEPT !.failed = TRUE])

\* Lines 272-284: the start status, the working directory, the navigation.
MsdStart(w) ==
    /\ Running
    /\ wpc[w] = "run_msd"
    /\ files' = (MsdDir :> "dir") @@ files
    /\ LET evs == <<Ev("status_update", "Starting Member Service Detail extraction...", w),
                    Ev("status_update", "Navigating to Member Service Details page...", w)>>
       IN \E nav \in BOOLEAN :
             IF nav
             THEN WorkerStep(w, "msd_uan", evs,
                             [local[w] EXCEPT !.i = 1, !.generated_files = <<>>])
             ELSE MsdAbort(w, evs)
    /\ UNCHANGED <<command_queue, wcmd, browser, GuiVars>>

\* Lines 286-300: search one UAN and read the grid's headers.
MsdSearch(w) ==
    /\ Running
    /\ wpc[w] = "msd_uan"
    /\ local[w].i <= Len(wcmd[w].data.uans)
    /\ LET ev == <<Ev("status_update", <<"Processing UAN", wcmd[w].data.uans[local[w].i]>>, w)>>
       IN \E ok \in BOOLEAN, h \in portal.msd_headers :
             IF ok
             THEN WorkerStep(w, "msd_page", ev,
                             [local[w] EXCEPT !.headers = h, !.all_rows_data = <<>>,
                                              !.page = 1])
             ELSE MsdAbort(w, ev)
    /\ UNCHANGED <<command_queue, wcmd, browser, files, GuiVars>>

\* Lines 306-309 with 'Member not found' reported as a failure of the task.
MsdPageNotFoundIsError(w) ==
    /\ Running
    /\ wpc[w] = "msd_page"
    /\ local[w].all_rows_data = <<>>
    /\ WorkerStep(w, "get",
                  <<Ev("error", "An error occurred during MSD extraction", w)>>,
                  [local[w] EXCEPT !.pager = "notfound", !.failed = TRUE])
    /\ UNCHANGED <<command_queue, wcmd, browser, files, GuiVars>>

\* Lines 303-324: one iteration of the pagination loop.  A row is kept as the
\* number of its cells after the first.  pager is what line 307 found in the
\* pager's text the last time, "unread" when line 306 did not let it be read.
MsdPage(w) ==
    /\ Running
    /\ wpc[w] = "msd_page"
    /\ \E rows \in SeqsUpTo(portal.msd_arities, MaxRows), notfound \in BOOLEAN,
          next_button \in {"disabled", "enabled", "error"} :
          LET uan == wcmd[w].data.uans[local[w].i]
              pager == IF rows = <<>> /\ local[w].all_rows_data = <<>>
                       THEN (IF notfound THEN "notfound" ELSE "found")
                       ELSE "unread"
              loc == [local[w] EXCEPT !.all_rows_data = @ \o rows, !.pager = pager]
          IN IF pager = "notfound"
             THEN WorkerStep(w, "msd_save", <<>>, loc)
             ELSE CASE next_button = "disabled" -> WorkerStep(w, "msd_save", <<>>, loc)
                    [] next_button = "enabled" ->
                          /\ local[w].page < portal.msd_pages
                          /\ WorkerStep(w, "msd_page",
                                <<Ev("status_update", <<"Found multiple pages", uan>>, w)>>,
                                [loc EXCEPT !.page = @ + 1])
                    [] OTHER -> WorkerStep(w, "get",
                                   <<Ev("error", "An error occurred during MSD extraction", w)>>,
                                   [loc EXCEPT !.failed = TRUE])
    /\ UNCHANGED <<command_queue, wcmd, browser, files, GuiVars>>

\* Line 328: pd.DataFrame(all_rows_data, columns=headers) pads short rows and
\* raises ValueError unless the widest row has as many cells as there are headers.
RECURSIVE MaxOf(_)
MaxOf(s) == IF s = <<>> THEN 0
            ELSE LET m == MaxOf(Tail(s)) IN IF Head(s) > m THEN Head(s) ELSE m
FrameOk(rows, headers) == MaxOf(rows) = headers

\* Lines 326-332 without the `if all_rows_data:` of line 327.
MsdSaveUnguarded(w) ==
    /\ Running
    /\ wpc[w] = "msd_save"
    /\ LET uan == wcmd[w].data.uans[local[w].i] IN
       /\ files' = (MsdFile(uan) :> [headers |-> local[w].headers,
                                     rows |-> local[w].all_rows_data]) @@ files
       /\ WorkerStep(w, "msd_uan", <<>>,
                     [local[w] EXCEPT !.i = @ + 1,
                                      !.generated_files = Append(@, MsdFile(uan))])
    /\ UNCHANGED <<command_queue, wcmd, browser, GuiVars>>

\* Lines 326-332: save the rows of the current UAN.
MsdSave(w) ==
    /\ Running
    /\ wpc[w] = "msd_save"
    /\ LET uan == wcmd[w].data.uans[local[w].i]
           loc == [local[w] EXCEPT !.i = @ + 1]
       IN IF local[w].all_rows_data = <<>>
          THEN /\ files' = files
               /\ WorkerStep(w, "msd_uan", <<>>, loc)
          ELSE IF FrameOk(local[w].all_rows_data, local[w].headers) /\ Exists(files, MsdDir)
          THEN /\ files' = (MsdFile(uan) :> [headers |-> local[w].headers,
                                             rows |-> local[w].all_rows_data]) @@ files
               /\ WorkerStep(w, "msd_uan", <<>>,
                             [loc EXCEPT !.generated_files = Append(@, MsdFile(uan))])
          ELSE /\ files' = files
               /\ Raise(w, <<>>, local[w])
    /\ UNCHANGED <<command_queue, wcmd, browser, GuiVars>>

\* Lines 338-355: archive the per-UAN files and remove the working directory.
MsdZip(w) ==
    /\ Running
    /\ wpc[w] = "msd_uan"
    /\ local[w].i > Len(wcmd[w].data.uans)
    /\ LET done == Ev("status_update", "Member Service Detail extraction finished.", w)
           zipping == Ev("status_update", <<"Zipping", Len(local[w].generated_files)>>, w)
           z == ZipAndRemove(files, local[w].generated_files, <<>>)
           zipped == (MsdZipFile :> z.names) @@ z.fs
           left == {p \in DOMAIN z.fs : p.dir = "msd_excel_files"}
       IN IF local[w].generated_files = <<>>
          THEN /\ files' = files
               /\ WorkerStep(w, "get", <<Ev("info", "No data was extracted or saved.", w), done>>,
                             local[w])
          ELSE IF ~z.ok
          THEN /\ files' = zipped
               /\ Raise(w, <<zipping>>, local[w])
          ELSE IF Exists(z.fs, MsdDir) /\ left # {}
          THEN /\ files' = zipped
               /\ Raise(w, <<zipping>>, local[w])
          ELSE /\ files' = [p \in DOMAIN zipped \ {MsdDir} |-> zipped[p]]
               /\ WorkerStep(w, "get",
                             <<zipping, Ev("info", "Task complete. All service details saved", w), done>>,
                             [local[w] EXCEPT !.wrote = TRUE])
    /\ UNCHANGED <<command_queue, wcmd, browser, GuiVars>>

\* ------------------------------------------------------------- the GUI
WorkerVars == <<wpc, wcmd, local, browser, files, entries>>

\* command_queue.put((command, data)) from the GUI thread.
PutCommand(cmd, data) ==
    /\ nextId <= MaxCmds
    /\ command_queue' = Append(command_queue, [cmd |-> cmd, data |-> data, id |-> nextId])
    /\ nextId' = nextId + 1

\* Lines 116-143: which buttons update_ui_state leaves usable.
LoginShown == ui_state = "initial"
VerifyShown == ui_state = "waiting_for_verify"
LogoutShown == ui_state \in {"waiting_for_verify", "logged_in"}
TasksEnabled == ui_state = "logged_in"

\* Lines 157-159.
handle_open_browser ==
    /\ root # "destroyed"
    /\ LoginShown
    /\ PutCommand("open_login_page", NoData)
    /\ UNCHANGED <<result_queue, WorkerVars, ui_state, root, pendingStart,
                   pendingInitial, nStarted, lastConsumed, owed, shutdownPut>>

\* Lines 161-163.
handle_verify_login ==
    /\ root # "destroyed"
    /\ VerifyShown
    /\ PutCommand("verify_login", NoData)
    /\ UNCHANGED <<result_queue, WorkerVars, ui_state, root, pendingStart,
                   pendingInitial, nStarted, lastConsumed, owed, shutdownPut>>

\* Lines 165-169.
handle_logout ==
    /\ root # "destroyed"
    /\ LogoutShown
    /\ nStarted + pendingStart < MaxWorkers
    /\ PutCommand("shutdown", NoData)
    /\ pendingStart' = pendingStart + 1
    /\ pendingInitial' = pendingInitial + 1
    /\ owed' = owed \cup {w \in Workers : Live(w)}
    /\ shutdownPut' = TRUE
    /\ UNCHANGED <<result_queue, WorkerVars, ui_state, root, nStarted, lastConsumed>>

\* A worker blocked in command_queue.get() takes a command that was put well
\* within the 500 ms of a timer: when a timer fires, no waiting worker has a
\* command left to take.
Prompt == \A w \in Workers : ~(wpc[w] = "get" /\ command_queue # <<>>)

\* Lines 450-452, run by the 500 ms timer of handle_logout.
start_worker_thread ==
    /\ root # "destroyed"
    /\ Prompt
    /\ pendingStart > 0
    /\ nStarted < MaxWorkers
    /\ pendingStart' = pendingStart - 1
    /\ nStarted' = nStarted + 1
    /\ wpc' = [wpc EXCEPT ![nStarted + 1] = "launch"]
    /\ UNCHANGED <<command_queue, result_queue, wcmd, local, browser, files, entries,
                   ui_state, root, pendingInitial, nextId, lastConsumed, owed, shutdownPut>>

\* Line 169: the 600 ms timer of handle_logout; it fires after the 500 ms one.
TimerInitial ==
    /\ root # "destroyed"
    /\ pendingInitial > pendingStart
    /\ pendingInitial' = pendingInitial - 1
    /\ ui_state' = "initial"
    /\ UNCHANGED <<command_queue, result_queue, WorkerVars, root, pendingStart,
                   nStarted, nextId, lastConsumed, owed, shutdownPut>>

\* Lines 454-456.
on_closing ==
    /\ root # "destroyed"
    /\ PutCommand("shutdown", NoData)
    /\ root' = "closing"
    /\ owed' = owed \cup {w \in Workers : Live(w)}
    /\ shutdownPut' = TRUE
    /\ UNCHANGED <<result_queue, WorkerVars, ui_state, pendingStart, pendingInitial,
                   nStarted, lastConsumed>>

\* Line 456: root.destroy ends mainloop and with it the process.
Destroy ==
    /\ root = "closing"
    /\ Prompt
    /\ root' = "destroyed"
    /\ UNCHANGED <<command_queue, result_queue, WorkerVars, ui_state, pendingStart,
                   pendingInitial, nStarted, nextId, lastConsumed, owed, shutdownPut>>

\* Lines 91-108: the UI state after an event of the result queue.
UiAfter(e) ==
    IF e.type = "browser_opened" THEN "waiting_for_verify"
    ELSE IF e.type = "login_verified" /\ e.data = TRUE THEN "logged_in"
    ELSE ui_state

\* Lines 86-113: one poll of the result queue that finds an event.
process_result_queue ==
    /\ root # "destroyed"
    /\ result_queue # <<>>
    /\ LET e == Head(result_queue) IN
       /\ result_queue' = Tail(result_queue)
       /\ ui_state' = UiAfter(e)
       /\ lastConsumed' = IF e.cmd > lastConsumed THEN e.cmd ELSE lastConsumed
    /\ UNCHANGED <<command_queue, WorkerVars, root, pendingStart, pendingInitial,
                   nStarted, nextId, owed, shutdownPut>>

\* Lines 374-380: the UAN entry is split at commas, each field stripped, empty ones dropped.
RawFields == {"", " ", "u1", " u1 ", "u2"}
Strip(f) == CASE f = " " -> "" [] f = " u1 " -> "u1" [] OTHER -> f
NonEmptyAny(u) == TRUE

NonEmpty(u) == u # ""
ParseUans(text) == SelectSeq([i \in 1..Len(text) |-> Strip(text[i])], NonEmpty)
EntryTexts == SeqsUpTo(RawFields, MaxUans) \ {<<>>}
OutputFiles == {"", "epfo_data.xlsx"}

uan_button_command ==
    /\ root # "destroyed"
    /\ TasksEnabled
    /\ LET uans == ParseUans(uans_entry)
           output_file == output_file_entry
       IN IF uans = <<>> \/ output_file = ""
          THEN UNCHANGED <<command_queue, nextId>>
          ELSE PutCommand("run_uan", [NoData EXCEPT !.uans = uans, !.output_file = output_file])
    /\ UNCHANGED <<result_queue, WorkerVars, ui_state, root, pendingStart,
                   pendingInitial, nStarted, lastConsumed, owed, shutdownPut>>

\* Line 409: month_map has the month names as they are listed.
MonthKnown(name) == \E i \in 1..Len(Months) : Months[i] = name
month_map(name) == CHOOSE i \in 1..Len(Months) : Months[i] = name

\* Lines 400-401: a date of the ECR widgets; ValueError or KeyError otherwise.
EntryDateOk(year_text, month_name) ==
    /\ IntParses(year_text)
    /\ MonthKnown(month_name)
    /\ DateOk(int(year_text), month_map(month_name))
EntryDate(year_text, month_name) == datetime(int(year_text), month_map(month_name))

\* Lines 398-404.
ecr_button_command ==
    /\ root # "destroyed"
    /\ TasksEnabled
    /\ IF EntryDateOk(ecr_entry.sy, ecr_entry.sm) /\ EntryDateOk(ecr_entry.ey, ecr_entry.em)
       THEN PutCommand("run_ecr",
                       [NoData EXCEPT !.start_date = EntryDate(ecr_entry.sy, ecr_entry.sm),
                                      !.end_date = EntryDate(ecr_entry.ey, ecr_entry.em)])
       ELSE UNCHANGED <<command_queue, nextId>>
    /\ UNCHANGED <<result_queue, WorkerVars, ui_state, root, pendingStart,
                   pendingInitial, nStarted, lastConsumed, owed, shutdownPut>>

\* Lines 426-431.
msd_button_command ==
    /\ root # "destroyed"
    /\ TasksEnabled
    /\ LET uans == ParseUans(msd_uans_entry)
       IN IF uans = <<>>
          THEN UNCHANGED <<command_queue, nextId>>
          ELSE PutCommand("run_msd", [NoData EXCEPT !.uans = uans])
    /\ UNCHANGED <<result_queue, WorkerVars, ui_state, root, pendingStart,
                   pendingInitial, nStarted, lastConsumed, owed, shutdownPut>>

\* ------------------------------------------------------- specification
WorkerNext(w) ==
    \/ Launch(w)
    \/ Get(w)
    \/ CloseBrowser(w)
    \/ OpenLoginPage(w)
    \/ VerifyLogin(w)
    \/ UanStart(w)
    \/ UanRow(w)
    \/ UanFinish(w)
    \/ EcrStart(w)
    \/ EcrPage(w)
    \/ EcrRow(w)
    \/ EcrNext(w)
    \/ EcrZip(w)
    \/ MsdStart(w)
    \/ MsdSearch(w)
    \/ MsdPage(w)
    \/ MsdSave(w)
    \/ MsdZip(w)

GuiNext ==
    \/ handle_open_browser
    \/ handle_verify_login
    \/ handle_logout
    \/ start_worker_thread
    \/ TimerInitial
    \/ on_closing
    \/ Destroy
    \/ process_result_queue
    \/ uan_button_command
    \/ ecr_button_command
    \/ msd_button_command

Next == GuiNext \/ \E w \in Workers : WorkerNext(w)

Spec == Init /\ [][Next]_vars

\* The threads and the Tk event loop keep running: every worker thread takes
\* its steps, timers fire and the result queue is polled.  The user may stop
\* clicking at any time.
FairSpec ==
    /\ Spec
    /\ \A w \in Workers : WF_vars(WorkerNext(w))
    /\ WF_vars(start_worker_thread)
    /\ WF_vars(TimerInitial)
    /\ WF_vars(Destroy)
    /\ WF_vars(process_result_queue)

\* The state once the first worker has launched its browser and the login
\* was verified: open_login_page and then verify_login (`verifies` times, the
\* last one finding the login) were put and run and their events consumed;
\* with the given widget texts and portal.
LoggedIn(uans_text, output_text, ecr_texts, msd_text, site, verifies) ==
    /\ command_queue = <<>>
    /\ result_queue = <<>>
    /\ wpc = [w \in Workers |-> IF w = 1 THEN "get" ELSE "unstarted"]
    /\ wcmd = [w \in Workers |->
                 IF w = 1 THEN [cmd |-> "verify_login", data |-> NoData, id |-> 1 + verifies]
                 ELSE NoCmd]
    /\ local = [w \in Workers |-> EmptyLocal]
    /\ browser = [w \in Workers |-> IF w = 1 THEN "open" ELSE "none"]
    /\ files = <<>>
    /\ ui_state = "logged_in"
    /\ root = "running"
    /\ pendingStart = 0
    /\ pendingInitial = 0
    /\ nStarted = 1
    /\ nextId = 2 + verifies
    /\ lastConsumed = 1 + verifies
    /\ owed = {}
    /\ shutdownPut = FALSE
    /\ uans_entry = uans_text
    /\ output_file_entry = output_text
    /\ ecr_entry = ecr_texts
    /\ msd_uans_entry = msd_text
    /\ portal = site

DefaultEcrEntry == [sy |-> "2024", sm |-> "Feb", ey |-> "2024", em |-> "Mar"]
EcrEntries ==
    {DefaultEcrEntry,
     [sy |-> "2024", sm |-> "Mar", ey |-> "2024", em |-> "Feb"],
     [sy |-> "2024", sm |-> "Feb", ey |-> "2024", em |-> "Feb"],
     [sy |-> "abc", sm |-> "Feb", ey |-> "2024", em |-> "Mar"],
     [sy |-> "2024", sm |-> "Feb", ey |-> "0", em |-> "Mar"]}

\* The UAN task alone, for every text of the UAN widgets.
UanInit ==
    \E text \in EntryTexts, out \in OutputFiles :
        LoggedIn(text, out, DefaultEcrEntry, <<"u1">>, SmallPortal, 1)
UanNext ==
    \/ uan_button_command
    \/ \E w \in Workers : Get(w) \/ UanStart(w) \/ UanRow(w) \/ UanFinish(w)
SpecUan == UanInit /\ [][UanNext]_vars

\* The ECR task alone, for every date range of the widgets and every row.
EcrInit ==
    \E dates \in EcrEntries, site \in FullPortals :
        LoggedIn(<<"u1">>, "epfo_data.xlsx", dates, <<"u1">>, site, 2)
EcrNextStep ==
    \/ ecr_button_command
    \/ \E w \in Workers :
          Get(w) \/ EcrStart(w) \/ EcrPage(w) \/ EcrRow(w) \/ EcrNext(w) \/ EcrZip(w)
SpecEcr == EcrInit /\ [][EcrNextStep]_vars

\* The MSD task alone, for every text of the UAN widget and every grid.
MsdInit ==
    \E text \in EntryTexts, site \in FullPortals :
        LoggedIn(<<"u1">>, "epfo_data.xlsx", DefaultEcrEntry, text, site, 1)
MsdNext ==
    \/ msd_button_command
    \/ \E w \in Workers :
          Get(w) \/ MsdStart(w) \/ MsdSearch(w) \/ MsdPage(w) \/ MsdSave(w) \/ MsdZip(w)
SpecMsd == MsdInit /\ [][MsdNext]_vars

\* The three submissions alone, for every text of the entry widgets.
InputInit ==
    \E uans_text \in EntryTexts, out \in OutputFiles, dates \in EcrEntries,
       msd_text \in EntryTexts :
        LoggedIn(uans_text, out, dates, msd_text, SmallPortal, 1)
InputNext ==
    \/ uan_button_command
    \/ ecr_button_command
    \/ msd_button_command
    \/ \E w \in Workers : Get(w)
SpecInput == InputInit /\ [][InputNext]_vars

\* ============================================================== claims
\* A step in which the GUI consumes the head of the result queue.
Consumes == result_queue # <<>> /\ result_queue' = Tail(result_queue)
\* A step in which worker w dequeues the head of the command queue.
Dequeues(w) == wpc[w] = "get" /\ command_queue # <<>> /\ command_queue' = Tail(command_queue)
\* Worker w has returned from the handler of the command it dequeued last.
Returned(w) == wpc[w] = "get" /\ wcmd[w].cmd \notin {"none", "shutdown"}

\* C1: commands are dequeued in the order they were put, and the events the
\* GUI consumes appear in the order of the commands that produced them: an
\* event of a command is never consumed after an event of a later command.
C1_ResultsInCommandOrder ==
    [][/\ \A w \in Workers :
             Dequeues(w) => \A v \in Workers : wcmd[v].id < Head(command_queue).id
       /\ Consumes =>
             (Head(result_queue).cmd = 0 \/ Head(result_queue).cmd >= lastConsumed)]_vars

\* C2: at most one browser session is live in every reachable state.
C2_OneLiveSession == Cardinality({w \in Workers : Live(w)}) <= 1

\* C3: at most one command handler is in progress in every reachable state,
\* and no command is held by two workers.
C3_OneHandlerAtATime ==
    /\ Cardinality({w \in Workers : InHandler(w)}) <= 1
    /\ \A v, w \in Workers : v # w /\ wcmd[v].id # 0 => wcmd[v].id # wcmd[w].id

\* C4 as stated: whenever the handler of a non-shutdown command has failed in
\* any way (navigation, a row, an unexpected exception), the worker has put
\* an error event for it.
C4_EveryFailureReported ==
    \A w \in Workers :
        Returned(w) /\ (local[w].failed \/ local[w].nLogged > 0) => local[w].nError >= 1

\* C4 as amended: a navigation failure or an exception that leaves the handler
\* puts exactly one error event, a handler that did not fail that way puts
\* none (row failures are only logged), and the worker is back at
\* command_queue.get(): only a shutdown command or a failed launch ends the loop.
C4_FailureReportedLoopContinues ==
    \A w \in Workers :
        /\ Returned(w) => local[w].nError = (IF local[w].failed THEN 1 ELSE 0)
        /\ wpc[w] \in {"exit", "done"} => wcmd[w].cmd = "shutdown" \/ browser[w] = "none"

C4_Witness ==
    \E w \in Workers :
        /\ Returned(w) /\ local[w].failed /\ local[w].nError = 1
        /\ wcmd[w].cmd = "run_uan" /\ command_queue # <<>>

\* C5: every worker that was live when a shutdown command was put eventually
\* closes its browser (having dequeued the shutdown and left its loop), as
\* long as the process is not ended first by the window being closed.
C5_ShutdownEventuallyHonoured ==
    \A w \in Workers : (w \in owed) ~> (browser[w] = "closed" \/ root = "destroyed")

\* C6 as stated: once a shutdown command has been put, no worker dequeues a
\* task command.
C6_NoTaskAfterShutdownPut ==
    [][shutdownPut =>
          ~\E w \in Workers : Dequeues(w) /\ Head(command_queue).cmd \in TaskCmds]_vars

\* C6 as amended: once a worker has dequeued a shutdown command, that worker
\* dequeues nothing more: it keeps that command and only leaves its loop.
C6_NoDequeueAfterOwnShutdown ==
    [][\A w \in Workers :
          wcmd[w].cmd = "shutdown" =>
              wcmd'[w] = wcmd[w] /\ wpc'[w] \in {"exit", "done"}]_vars

C6_Witness ==
    /\ shutdownPut
    /\ \E w \in Workers : wcmd[w].cmd = "shutdown" /\ wpc[w] = "done"
    /\ \E v \in Workers : InHandler(v) /\ wcmd[v].cmd \in TaskCmds

\* C7: when a worker has returned from a task handler (so before it dequeues
\* its next command) the task has put exactly one info or error event: an
\* error event if the task failed, an info event otherwise.
C7_TaskNeverSilent ==
    \A w \in Workers :
        Returned(w) /\ wcmd[w].cmd \in TaskCmds =>
            /\ local[w].nInfo + local[w].nError = 1
            /\ local[w].failed <=> local[w].nError = 1

C7_Witness ==
    \E w \in Workers :
        /\ Returned(w) /\ wcmd[w].cmd = "run_msd"
        /\ local[w].failed /\ local[w].nError = 1 /\ local[w].nInfo = 0

\* ---- UAN lookup
RECURSIVE IsSubseq(_, _)
IsSubseq(s, t) ==
    IF s = <<>> THEN TRUE
    ELSE IF t = <<>> THEN FALSE
    ELSE IF Head(s) = Head(t) THEN IsSubseq(Tail(s), Tail(t))
    ELSE IsSubseq(s, Tail(t))
Occurrences(s, x) == Cardinality({i \in 1..Len(s) : s[i] = x})
\* Worker w has just saved the table of a UAN task.
UanSaved(w) == Returned(w) /\ wcmd[w].cmd = "run_uan" /\ local[w].wrote
UanTable(w) == files[Path("", wcmd[w].data.output_file, <<>>)]
\* The UAN column of that table.
UanColumn(w) == [i \in 1..Len(UanTable(w)) |-> UanTable(w)[i].UAN]

\* C8 as stated: the saved table has exactly M rows (N requested less the
\* reads that failed), in input order, and no UAN in two rows.
C8_RowsUniquePerUan ==
    \A w \in Workers :
        UanSaved(w) =>
            LET col == UanColumn(w) IN
            /\ Len(col) = Len(wcmd[w].data.uans) - local[w].nLogged
            /\ IsSubseq(col, wcmd[w].data.uans)
            /\ \A u \in Range(col) : Occurrences(col, u) <= 1

\* C8 as amended: the saved table has exactly M rows, one per entry of the
\* input that was read, in input order; a UAN is in no more rows than the
\* input lists it.
C8_RowsPerEntryInOrder ==
    \A w \in Workers :
        UanSaved(w) =>
            LET col == UanColumn(w) IN
            /\ Len(col) = Len(wcmd[w].data.uans) - local[w].nLogged
            /\ IsSubseq(col, wcmd[w].data.uans)
            /\ \A u \in Range(col) : Occurrences(col, u) <= Occurrences(wcmd[w].data.uans, u)

C8_Witness ==
    \E w \in Workers :
        /\ UanSaved(w)
        /\ wcmd[w].data.uans = <<"u1", "u2">>
        /\ local[w].nLogged = 1
        /\ UanColumn(w) = <<"u2">>

\* C9: when the loop over the UANs ends with no record collected, the task
\* puts the info event "No UAN data was extracted." and its final status,
\* no error event, and leaves the file system as it is.
C9_NoDataIsInfoAndNoFile ==
    [][\A w \in Workers :
          (/\ wpc[w] = "uan_loop" /\ wpc'[w] = "get"
           /\ local[w].all_uan_data = <<>>) =>
              /\ files' = files
              /\ Len(result_queue') = Len(result_queue) + 2
              /\ result_queue'[Len(result_queue) + 1].type = "info"
              /\ result_queue'[Len(result_queue) + 1].data = "No UAN data was extracted."
              /\ result_queue'[Len(result_queue) + 2].type = "status_update"
              /\ local'[w].nError = 0]_vars

C9_Witness ==
    \E w \in Workers :
        /\ Returned(w) /\ wcmd[w].cmd = "run_uan"
        /\ local[w].i > Len(wcmd[w].data.uans) /\ local[w].all_uan_data = <<>>
        /\ local[w].nInfo = 1 /\ ~local[w].wrote

\* ---- ECR downloader
\* A step in which worker w processes one row of the claim list.
EcrRowStep(w) ==
    /\ wpc[w] = "ecr_rows" /\ wpc'[w] = "ecr_rows"
    /\ local'[w].rows_left = local[w].rows_left - 1
\* The row was included: its file was added to the downloaded files.
Included(w) ==
    local'[w].downloaded_files = Append(local[w].downloaded_files, EcrFile(local'[w].row))
\* The claim's condition: status "Payment Confirmed" and start <= m <= end.
InRange(row, data) ==
    /\ row.status = "Payment Confirmed"
    /\ WageParses(row.wage)
    /\ WageDate(row.wage) >= data.start_date /\ WageDate(row.wage) <= data.end_date

\* C10 as stated: a row is included iff its status is "Payment Confirmed" and
\* its wage month lies in [start, end].
C10_IncludedIffConfirmedInRange ==
    [][\A w \in Workers :
          EcrRowStep(w) => (Included(w) <=> InRange(local'[w].row, wcmd[w].data))]_vars

\* C10 as amended: a row is included iff its cells can be read, its status is
\* "Payment Confirmed", its wage month lies in [start, end] (both inclusive),
\* it has a download link and the download succeeds.
C10_IncludedIffConfirmedInRangeDownloaded ==
    [][\A w \in Workers :
          EcrRowStep(w) =>
              (Included(w) <=>
                  /\ InRange(local'[w].row, wcmd[w].data)
                  /\ local'[w].row.link
                  /\ local'[w].row.err = "none")]_vars

C10_Witness ==
    \E w \in Workers :
        /\ wpc[w] = "ecr_rows"
        /\ local[w].row.wage = <<"MAR", "2024">>
        /\ wcmd[w].data.end_date = 202403
        /\ local[w].downloaded_files = <<EcrFile(local[w].row)>>

\* ---- MSD scraper
\* A step in which worker w leaves the save of the current UAN's rows.
MsdSaveStep(w) == wpc[w] = "msd_save" /\ wpc'[w] # "msd_save"
\* The UAN worker w is searching or saving.
MsdUan(w) == wcmd[w].data.uans[local[w].i]
\* A step in which worker w archives the per-UAN files of its task.
MsdZipStep(w) ==
    /\ wpc[w] = "msd_uan" /\ wpc'[w] = "get"
    /\ local[w].i > Len(wcmd[w].data.uans)
    /\ local[w].generated_files # <<>>
NoDuplicates(s) == \A i, j \in 1..Len(s) : s[i] = s[j] => i = j

\* C11: every table that is serialized has only rows as wide as its header
\* list, and the save of a UAN's rows always goes on to the next UAN (a row of
\* another width is dropped, it ends neither the UAN nor the task).
C11_RetainedRowsMatchHeaders ==
    [][\A w \in Workers :
          MsdSaveStep(w) =>
              /\ wpc'[w] = "msd_uan"
              /\ local'[w].i = local[w].i + 1
              /\ Exists(files', MsdFile(MsdUan(w))) =>
                    LET t == files'[MsdFile(MsdUan(w))] IN
                    \A i \in 1..Len(t.rows) : t.rows[i] = t.headers]_vars

\* C12 as stated: a UAN with no collected row gives no file and no path to
\* archive, a UAN with at least one collected row gives exactly one, and the
\* task ends with every such file as one entry of the archive.
C12_RowsIffArchiveEntry ==
    [][\A w \in Workers :
          /\ MsdSaveStep(w) =>
                IF local[w].all_rows_data = <<>>
                THEN files' = files /\ local'[w].generated_files = local[w].generated_files
                ELSE /\ Exists(files', MsdFile(MsdUan(w)))
                     /\ local'[w].generated_files =
                            Append(local[w].generated_files, MsdFile(MsdUan(w)))
          /\ (wcmd[w].cmd = "run_msd" /\ InHandler(w) /\ wpc'[w] = "get") =>
                \A f \in Range(local[w].generated_files) :
                    /\ Exists(files', MsdZipFile)
                    /\ Cardinality({i \in 1..Len(files'[MsdZipFile]) :
                                       files'[MsdZipFile][i] = f}) = 1]_vars

\* C12 as amended: a UAN with no collected row gives no file and no path to
\* archive; a UAN with collected rows gives one file and one path when its
\* table is accepted, and ends the task with an error event otherwise; the
\* archive a task writes holds only files of that task, each at most once,
\* and all of them when the task reports the archive.
C12_RowsThenFileThenEntry ==
    [][\A w \in Workers :
          /\ MsdSaveStep(w) =>
                IF local[w].all_rows_data = <<>>
                THEN files' = files /\ local'[w].generated_files = local[w].generated_files
                ELSE IF FrameOk(local[w].all_rows_data, local[w].headers) /\ Exists(files, MsdDir)
                THEN /\ Exists(files', MsdFile(MsdUan(w)))
                     /\ local'[w].generated_files =
                            Append(local[w].generated_files, MsdFile(MsdUan(w)))
                ELSE /\ files' = files /\ wpc'[w] = "get"
                     /\ local'[w].nError = 1 /\ local'[w].nInfo = 0
          /\ MsdZipStep(w) =>
                /\ Exists(files', MsdZipFile)
                /\ NoDuplicates(files'[MsdZipFile])
                /\ Range(files'[MsdZipFile]) \subseteq Range(local[w].generated_files)
                /\ local'[w].nInfo = 1 =>
                      Range(files'[MsdZipFile]) = Range(local[w].generated_files)]_vars

C12_Witness ==
    \E w \in Workers :
        /\ Returned(w) /\ wcmd[w].cmd = "run_msd" /\ local[w].wrote
        /\ wcmd[w].data.uans = <<"u1", "u2">>
        /\ local[w].generated_files = <<MsdFile("u2")>>
        /\ files[MsdZipFile] = <<MsdFile("u2")>>
        /\ ~Exists(files, MsdFile("u1"))

\* ---- input validation
\* The commands that are on the command queue or were dequeued by a worker.
Submitted == Range(command_queue) \cup {wcmd[w] : w \in Workers}
\* A text that is a UAN: not empty and without white space around it.
IsUan(u) == u \notin {"", " ", " u1 "}
\* A value that is a date: year * 100 + month of a real year and month.
IsDate(d) == d % 100 \in 1..12 /\ d \div 100 \in 1..9999
\* The entry has no field that holds a UAN.
Blank(text) == \A i \in 1..Len(text) : text[i] \in {"", " "}
\* The year texts that are no year.
BadYear(y) == y \in {"abc", "0"}

\* C13: every run_uan command has a non-empty list of UANs and a non-empty
\* output path, every run_msd command a non-empty list of UANs, every run_ecr
\* command two dates; with a missing or unparseable parameter in the widgets
\* no command of that task is ever put.
C13_OnlyValidCommandsQueued ==
    /\ \A c \in Submitted :
          /\ c.cmd = "run_uan" =>
                /\ c.data.uans # <<>> /\ \A u \in Range(c.data.uans) : IsUan(u)
                /\ c.data.output_file # ""
          /\ c.cmd = "run_msd" =>
                c.data.uans # <<>> /\ \A u \in Range(c.data.uans) : IsUan(u)
          /\ c.cmd = "run_ecr" => IsDate(c.data.start_date) /\ IsDate(c.data.end_date)
    /\ (Blank(uans_entry) \/ output_file_entry = "") =>
          \A c \in Submitted : c.cmd # "run_uan"
    /\ Blank(msd_uans_entry) => \A c \in Submitted : c.cmd # "run_msd"
    /\ (BadYear(ecr_entry.sy) \/ BadYear(ecr_entry.ey)) =>
          \A c \in Submitted : c.cmd # "run_ecr"

C13_Witness ==
    /\ uans_entry = <<" ", " u1 ">>
    /\ msd_uans_entry = <<"", " ">>
    /\ BadYear(ecr_entry.ey)
    /\ nextId = 4
    /\ \E w \in Workers : wcmd[w].cmd = "run_uan" /\ wcmd[w].data.uans = <<"u1">>
    /\ command_queue = <<>>

\* ---- login verification and launch
\* C14: the handler of verify_login puts exactly one event, a login_verified
\* event that carries a boolean (FALSE when the marker did not appear in time),
\* puts no error event, and the worker is back at command_queue.get().
C14_VerifyYieldsOneBoolean ==
    [][\A w \in Workers :
          (wpc[w] = "verify_login" /\ wpc'[w] # "verify_login") =>
              /\ wpc'[w] = "get"
              /\ Len(result_queue') = Len(result_queue) + 1
              /\ SubSeq(result_queue', 1, Len(result_queue)) = result_queue
              /\ LET e == result_queue'[Len(result_queue')] IN
                 /\ e.type = "login_verified" /\ e.data \in BOOLEAN
                 /\ e.w = w /\ e.cmd = wcmd[w].id
              /\ local'[w].nError = 0 /\ ~local'[w].failed]_vars

C14_Witness ==
    \E w \in Workers :
        /\ Returned(w) /\ wcmd[w].cmd = "verify_login"
        /\ result_queue # <<>>
        /\ result_queue[Len(result_queue)].type = "login_verified"
        /\ result_queue[Len(result_queue)].data = FALSE
        /\ result_queue[Len(result_queue)].w = w
        /\ command_queue # <<>>

\* Worker w puts an event on the result queue in this step.
Puts(w) ==
    /\ Len(result_queue') > Len(result_queue)
    /\ result_queue'[Len(result_queue')].w = w
\* The launch of worker w's browser has failed.
LaunchFailed(w) == wpc[w] = "done" /\ browser[w] = "none"

\* C15: a worker whose launch fails puts one error event (and no 'Ready'
\* status) and terminates; from then on it dequeues no command, puts no event
\* and has no browser.
C15_FailedLaunchEndsWorker ==
    [][\A w \in Workers :
          /\ (wpc[w] = "launch" /\ wpc'[w] # "launch" /\ browser'[w] # "open") =>
                /\ wpc'[w] = "done" /\ browser'[w] = "none" /\ wcmd'[w] = NoCmd
                /\ result_queue' =
                      Append(result_queue,
                             [type |-> "error", data |-> "Could not launch browser",
                              w |-> w, cmd |-> 0])
                /\ command_queue' = command_queue
          /\ LaunchFailed(w) =>
                /\ LaunchFailed(w)' /\ wcmd'[w] = NoCmd
                /\ ~Puts(w)]_vars

C15_Witness ==
    \E w \in Workers :
        /\ LaunchFailed(w) /\ wcmd[w] = NoCmd
        /\ command_queue # <<>>
        /\ \A e \in Range(result_queue) : e.w = w => e.type = "error"

\* ---- shutdown of one worker
\* C16: the step in which a worker dequeues a shutdown command puts the
\* 'Shutting down...' status and that worker puts no event after it; a browser
\* is closed only by a worker that dequeued a shutdown command and left its
\* loop, a closed browser stays closed, and a worker that dequeued a shutdown
\* command does close its browser unless the process ends first.
C16_ShuttingDownLastThenClosedOnce ==
    /\ [][\A w \in Workers :
             /\ (wcmd[w].cmd # "shutdown" /\ wcmd'[w].cmd = "shutdown") =>
                   result_queue' =
                       Append(result_queue,
                              [type |-> "status_update", data |-> "Shutting down...",
                               w |-> w, cmd |-> wcmd'[w].id])
             /\ wcmd[w].cmd = "shutdown" => ~Puts(w)
             /\ (browser[w] = "open" /\ browser'[w] # "open") =>
                   /\ wpc[w] = "exit" /\ wcmd[w].cmd = "shutdown"
                   /\ browser'[w] = "closed"
             /\ browser[w] = "closed" => browser'[w] = "closed" /\ wpc'[w] = "done"]_vars
    /\ \A w \in Workers :
          (wcmd[w].cmd = "shutdown") ~> (browser[w] = "closed" \/ root = "destroyed")

C16_Witness ==
    \E w \in Workers :
        /\ browser[w] = "closed" /\ wpc[w] = "done" /\ wcmd[w].cmd = "shutdown"
        /\ result_queue # <<>>
        /\ result_queue[Len(result_queue)].data = "Shutting down..."
        /\ result_queue[Len(result_queue)].w = w

\* ---- UAN lookup: failures of single UANs
\* The UANs of the 'Extracting data for UAN' status events worker w has put
\* for the command it dequeued last (in a run that consumes no event).
UanStatuses(w) ==
    LET IsStatus(e) ==
            /\ e.w = w /\ e.cmd = wcmd[w].id /\ e.type = "status_update"
            /\ e.data \in Seq({"Extracting data for UAN"} \cup Range(wcmd[w].data.uans))
            /\ Len(e.data) = 2 /\ e.data[1] = "Extracting data for UAN"
        q == SelectSeq(result_queue, IsStatus)
    IN [k \in 1..Len(q) |-> q[k].data[2]]

\* C17: once navigation has succeeded, the UANs reached so far have each got
\* their status event, in input order, whichever of them failed; the task
\* ends only after the last UAN, and the records collected are those of the
\* UANs that did not fail.
C17_EveryUanGetsItsStatus ==
    \A w \in Workers :
        /\ wpc[w] = "uan_loop" =>
              /\ UanStatuses(w) = SubSeq(wcmd[w].data.uans, 1, local[w].i - 1)
              /\ Len(local[w].all_uan_data) + local[w].nLogged = local[w].i - 1
        /\ (Returned(w) /\ wcmd[w].cmd = "run_uan" /\ local[w].i > 0) =>
              /\ UanStatuses(w) = wcmd[w].data.uans
              /\ Len(local[w].all_uan_data) + local[w].nLogged = Len(wcmd[w].data.uans)

C17_Witness ==
    \E w \in Workers :
        /\ Returned(w) /\ wcmd[w].cmd = "run_uan"
        /\ wcmd[w].data.uans = <<"u1", "u2">>
        /\ UanStatuses(w) = <<"u1", "u2">>
        /\ local[w].nLogged = 1
        /\ local[w].all_uan_data = <<UanRecord("u2", "n1")>>

\* ---- ECR downloader: rows that cannot be parsed
\* The wage month texts of the model that are no 'Mon-YYYY' of a known month.
UnparseableWages == {<<"Foo", "2024">>, <<"Feb">>}

\* C18: the step that processes a row stays in the loop over the rows, and for
\* a row whose wage month cannot be parsed it downloads nothing, adds no file
\* and puts no error event; the row is at most logged.
C18_UnparseableRowSkipped ==
    [][\A w \in Workers :
          (wpc[w] = "ecr_rows" /\ local[w].rows_left > 0 /\ local'[w] # local[w]) =>
              /\ EcrRowStep(w)
              /\ local'[w].row.wage \in UnparseableWages =>
                    /\ ~Included(w)
                    /\ local'[w].downloaded_files = local[w].downloaded_files
                    /\ files' = files
                    /\ result_queue' = result_queue
                    /\ local'[w].nError = 0 /\ ~local'[w].failed
                    /\ local'[w].nLogged =
                          local[w].nLogged +
                          (IF local'[w].row.status = "Payment Confirmed"
                              \/ local'[w].row.err = "read" THEN 1 ELSE 0)]_vars

C18_Witness ==
    \E w \in Workers :
        /\ wpc[w] = "ecr_rows" /\ local[w].page = 2
        /\ local[w].row.wage = <<"Foo", "2024">>
        /\ local[w].row.status = "Payment Confirmed"
        /\ local[w].row.err = "none" /\ local[w].row.link
        /\ local[w].nLogged = 1 /\ local[w].nError = 0
        /\ local[w].downloaded_files = <<EcrFile(GoodRow)>>

\* ---- archives
\* C19: an ECR task that downloaded at least one statement ends with all of
\* them in the archive named by the range, none of the originals left, and
\* the info event that reports the archive.
C19_DownloadsAlwaysArchived ==
    \A w \in Workers :
        (Returned(w) /\ wcmd[w].cmd = "run_ecr" /\ local[w].downloaded_files # <<>>) =>
            /\ local[w].nInfo = 1 /\ local[w].nError = 0
            /\ Exists(files, EcrZipFile(wcmd[w].data))
            /\ Range(files[EcrZipFile(wcmd[w].data)]) = Range(local[w].downloaded_files)
            /\ \A f \in Range(local[w].downloaded_files) : ~Exists(files, f)

\* C20: an MSD task that has processed all its UANs and written at least one
\* per-UAN file ends with all of them in the archive, none of them left, the
\* working directory removed, and the info event that reports the archive.
C20_FilesAlwaysArchived ==
    \A w \in Workers :
        (/\ Returned(w) /\ wcmd[w].cmd = "run_msd"
         /\ local[w].i > Len(wcmd[w].data.uans)
         /\ local[w].generated_files # <<>>) =>
            /\ local[w].nInfo = 1 /\ local[w].nError = 0
            /\ Exists(files, MsdZipFile)
            /\ Range(files[MsdZipFile]) = Range(local[w].generated_files)
            /\ \A f \in Range(local[w].generated_files) : ~Exists(files, f)
            /\ ~Exists(files, MsdDir)

\* ---- MSD scraper: 'Member not found'
\* A step in which worker w leaves one iteration of the pagination loop.
MsdPageStep(w) == wpc[w] = "msd_page" /\ local'[w] # local[w]

\* C21: the pager's text is read only while no row has been collected for the
\* current UAN; when it says 'Member not found' the UAN ends with no row, no
\* event and no error, its save writes no file and adds no path, and the task
\* goes on to the next UAN of the input.
C21_MemberNotFoundIsEmptyResult ==
    [][\A w \in Workers :
          /\ MsdPageStep(w) =>
                /\ local'[w].pager # "unread" =>
                      local[w].all_rows_data = <<>> /\ local'[w].all_rows_data = <<>>
                /\ local'[w].pager = "notfound" =>
                      /\ wpc'[w] = "msd_save"
                      /\ result_queue' = result_queue
                      /\ local'[w].nError = 0 /\ ~local'[w].failed
                      /\ files' = files
          /\ (MsdSaveStep(w) /\ local[w].pager = "notfound") =>
                /\ wpc'[w] = "msd_uan"
                /\ local'[w].i = local[w].i + 1
                /\ files' = files
                /\ local'[w].generated_files = local[w].generated_files
                /\ result_queue' = result_queue
                /\ local'[w].nError = 0 /\ ~local'[w].failed]_vars

C21_Witness ==
    \E w \in Workers :
        /\ wpc[w] = "msd_page" /\ wcmd[w].cmd = "run_msd"
        /\ wcmd[w].data.uans = <<"u1", "u2">>
        /\ local[w].i = 2 /\ local[w].pager = "notfound"
        /\ local[w].nError = 0
        /\ ~Exists(files, MsdFile("u1"))
        /\ local[w].generated_files = <<>>

\* ---- task buttons and the live session
\* Worker w is starting or running its loop: it can still dequeue a command.
CanDequeue(w) == wpc[w] \notin {"unstarted", "exit", "done"}

\* C22: while the window is open and once the timers of a logout have fired,
\* the task buttons become enabled only by a login_verified(True) event of the one session that serves
\* the commands: its browser is open and no other worker is starting or
\* running.
C22_NoStaleLoginEnablesTasks ==
    [][(/\ ui_state # "logged_in" /\ ui_state' = "logged_in"
        /\ pendingInitial = 0 /\ root = "running") =>
          /\ result_queue # <<>>
          /\ Head(result_queue).type = "login_verified"
          /\ Head(result_queue).data = TRUE
          /\ LET v == Head(result_queue).w IN
             /\ Live(v) /\ CanDequeue(v)
             /\ \A w \in Workers \ {v} : ~CanDequeue(w)]_vars

====
